---- MODULE Spec2Model ----
(***************************************************************************)
(* Control flow of main() in the three transmit scripts                    *)
(*   transmit_gps_l1_l2_dual.py, transmit_gps_l2_l5_dual.py (two channels) *)
(*   transmit_gps_l5.py (one channel)                                      *)
(* against a device collaborator whose every call either returns or raises *)
(* BladeRFError.  The asynchronous SIGINT handler may run between any two  *)
(* steps of main.                                                          *)
(***************************************************************************)
EXTENDS Integers, Sequences, FiniteSets, TLC

(* ------------------------------ bounds -------------------------------- *)

\* the loop `while running` is unbounded; the model stops entering the body
\* after MaxTx transmit calls (the loop then waits for SIGINT)
MaxTx == 3

\* samples per channel buffer (buffer_size in the scripts, 8192 there); no
\* step of main depends on its value
buffer_size == 2

\* largest number of sample slots fed to the interleaver, and to the noise
\* generator, on their own
MaxSlots == 2

\* longest list of stage names fed to the stage loop on its own
MaxStages == 3

(* ------------------------- program constants -------------------------- *)

TX_GAIN_DB == 60
DSA_GAIN == 0
STAGE_GAIN == 60
RAW_MIN == -2047
RAW_MAX == 2047
REFRESH_MOD == 100

Scripts == {"l1_l2", "l2_l5", "l5"}

NumChannels(s) == IF s = "l5" THEN 1 ELSE 2

\* FREQ1_HZ / FREQ2_HZ / FREQUENCY_HZ, in kHz
FreqKHz(s, ch) ==
    CASE s = "l1_l2" -> IF ch = 0 THEN 1575420 ELSE 1227600
      [] s = "l2_l5" -> IF ch = 0 THEN 1227600 ELSE 1176450
      [] OTHER       -> 1176450

SAMPLE_RATE_KHZ == 5000
BANDWIDTH_KHZ == 2000

(* ----------------------------- gain stages ---------------------------- *)

\* stage names are sequences of characters
TXVGA1 == <<"t", "x", "v", "g", "a", "1">>
DSA1   == <<"d", "s", "a", "1">>
DSA_UP == <<"D", "S", "A">>
NoStage == <<>>

DSA2    == <<"d", "s", "a", "2">>
TX_DSA  == <<"t", "x", "D", "s", "A">>
DS_ONLY == <<"d", "s">>

\* the stage names the stage loop is tried on
StageNames == {TXVGA1, DSA1, DSA2, DSA_UP, TX_DSA, DS_ONLY}

\* what get_gain_stages may return
StageLists == { <<>>, <<TXVGA1, DSA1>>, <<DSA_UP>> }

LowerChar(c) ==
    CASE c = "D" -> "d" [] c = "S" -> "s" [] c = "A" -> "a"
      [] c = "T" -> "t" [] c = "X" -> "x" [] c = "V" -> "v"
      [] c = "G" -> "g" [] OTHER -> c

\* str.lower()
Lower(name) == [k \in 1..Len(name) |-> LowerChar(name[k])]

\* needle in hay
Contains(hay, needle) ==
    \E k \in 0..(Len(hay) - Len(needle)) :
        \A j \in 1..Len(needle) : hay[k + j] = needle[j]

\* mutant: the test is made on the name as given, without lower()
IsDsa_CaseSensitive(stage) == Contains(stage, <<"d", "s", "a">>)

\* 'dsa' in stage.lower()
IsDsa(stage) == Contains(Lower(stage), <<"d", "s", "a">>)

\* the value a stage is set to
StageValue(stage) == IF IsDsa(stage) THEN DSA_GAIN ELSE STAGE_GAIN

(* ------------------------------ samples ------------------------------- *)

\* mutant: the product is rounded to the nearest integer
Scale_Rounded(x) ==
    IF x >= 0 THEN (x * 95 + 50) \div 100 ELSE -(((-x) * 95 + 50) \div 100)

\* (x * 0.95).astype(np.int16): truncation toward zero
Scale(x) == IF x >= 0 THEN (x * 95) \div 100 ELSE -(((-x) * 95) \div 100)

\* raw values the random source is taken to deliver
RawSamples == {RAW_MIN, RAW_MAX}

\* s[start::step], start counted from 0
Slice(s, start, step) ==
    [k \in 1..((Len(s) - start + step - 1) \div step) |-> s[start + (k - 1) * step + 1]]

\* dst[start::step] = src
SetSlice(dst, start, step, src) ==
    [j \in 1..Len(dst) |->
        IF j - 1 >= start /\ (j - 1 - start) % step = 0
        THEN src[((j - 1 - start) \div step) + 1]
        ELSE dst[j]]

\* np.empty(n): n elements of unspecified content
Garbage == {-32768, 32767}
Empty(n, fill) == [j \in 1..n |-> fill]

\* the IQIQ... buffer built from i_samples and q_samples
IQBuffer(i_samples, q_samples, fill) ==
    SetSlice(SetSlice(Empty(2 * Len(i_samples), fill), 0, 2, i_samples), 1, 2, q_samples)

\* every buffer generate_white_noise(n) can return
generate_white_noise(n) ==
    { IQBuffer([k \in 1..n |-> Scale(i[k])], [k \in 1..n |-> Scale(q[k])], fill) :
        i \in [1..n -> RawSamples], q \in [1..n -> RawSamples], fill \in Garbage }

\* the draws of the random source that the runs of main explore: buffers of
\* buffer_size samples with one raw value for every I and one for every Q
NoiseBuffers ==
    { IQBuffer([k \in 1..buffer_size |-> Scale(i)], [k \in 1..buffer_size |-> Scale(q)], fill) :
        i \in RawSamples, q \in RawSamples, fill \in Garbage }

\* mutant: channel-major layout, all of channel 0 before all of channel 1
Interleave_ChannelMajor(noise_a, noise_b, dual_buffer_size, fill) ==
    SetSlice(Empty(dual_buffer_size * 2, fill), 0, 1, noise_a \o noise_b)

\* the dual-channel transfer buffer
Interleave(noise_a, noise_b, dual_buffer_size, fill) ==
    LET d0 == Empty(dual_buffer_size * 2, fill)
        d1 == SetSlice(d0, 0, 4, Slice(noise_a, 0, 2))
        d2 == SetSlice(d1, 1, 4, Slice(noise_a, 1, 2))
        d3 == SetSlice(d2, 2, 4, Slice(noise_b, 0, 2))
        d4 == SetSlice(d3, 3, 4, Slice(noise_b, 1, 2))
    IN  d4

(* ------------------------------- state -------------------------------- *)

VARIABLES
    i_samples,     \* generate_white_noise while it runs: its two arrays
    q_samples,     \* (empty once it has returned)
    script,        \* which of the three scripts runs
    pc,            \* position of main
    running,       \* the module-level flag
    dev,           \* "None" or "dev"
    enabled,       \* device side: channels whose TX module is on
    closed,        \* device side: close() has succeeded
    ch_idx,        \* channel main is working on
    gain_stages,   \* per channel, the list get_gain_stages returned
    stage_i,       \* position of the `for stage in gain_stages` loop
    noise_ch0,     \* dual: noise_ch0; single: noise_buffer
    noise_ch1,
    dual_samples,
    draw,          \* single: the last np.random.randint(0, 100)
    trace,         \* collaborator calls made so far, in order
    last_ok,       \* whether the most recent collaborator call returned
    exc,           \* the call whose exception reached main's except clauses
    sigint,        \* where main was, and how many transmit calls it had made,
                   \* when the handler first cleared the flag
    pending,       \* value of a `return` waiting for the finally block
    result,        \* what main returned (-1: has not returned)
    raised         \* an exception left main

vars == <<i_samples, q_samples, script, pc, running, dev, enabled, closed, ch_idx, gain_stages, stage_i,
          noise_ch0, noise_ch1, dual_samples, draw, trace, last_ok, exc, sigint,
          pending, result, raised>>

NoValue == -1

Ev(op, ch, stage, val) ==
    [op |-> op, ch |-> ch, stage |-> stage, val |-> val]

Count(op) == Cardinality({k \in 1..Len(trace) : trace[k].op = op})

TxCalls == Count("sync_tx")

NoSigint == [tx |-> NoValue, pc |-> "none"]

\* the positions of main inside the transmit loop
LoopPcs == {"while", "generate", "sync_tx", "refresh", "sleep"}

\* positions of main after the try body was left
ShutdownPcs == {"except", "finally", "disable", "close", "return"}

\* where main stands, as the handler's record keeps it: the position itself
\* inside the loop, the phase outside it
Where == IF pc \in LoopPcs THEN pc
         ELSE IF pc \in ShutdownPcs THEN "shutdown" ELSE "startup"

NoExc == [op |-> "none", at |-> NoValue]

\* the exception of the call about to be logged, on its way to the except clauses
Raise(op) == [op |-> op, at |-> Len(trace) + 1]

Init ==
    /\ script \in Scripts
    /\ pc = "open"
    /\ running = TRUE
    /\ dev = "None"
    /\ enabled = {}
    /\ closed = FALSE
    /\ ch_idx = 0
    /\ gain_stages = [c \in {0, 1} |-> <<>>]
    /\ stage_i = 0
    /\ noise_ch0 = <<>>
    /\ noise_ch1 = <<>>
    /\ dual_samples = <<>>
    /\ i_samples = <<>>
    /\ q_samples = <<>>
    /\ draw = NoValue
    /\ trace = <<>>
    /\ last_ok = TRUE
    /\ exc = NoExc
    /\ sigint = NoSigint
    /\ pending = NoValue
    /\ result = NoValue
    /\ raised = FALSE

(* ------------------------- the SIGINT handler --------------------------- *)

\* signal_handler: running = False.  A later delivery changes nothing.
Signal ==
    /\ pc /= "done"
    /\ running' = FALSE
    /\ sigint' = IF running THEN [tx |-> TxCalls, pc |-> Where] ELSE sigint
    /\ UNCHANGED <<i_samples, q_samples, script, pc, dev, enabled, closed, ch_idx, gain_stages, stage_i,
                   noise_ch0, noise_ch1, dual_samples, draw, trace, last_ok, exc,
                   pending, result, raised>>

(* ------------------------- collaborator calls ------------------------- *)

\* one call on the device: it is logged, and it returns (ok) or raises
Call(op, ch, stage, val, ok) ==
    /\ trace' = Append(trace, Ev(op, ch, stage, val))
    /\ last_ok' = ok

\* mutant: the failure of the call is reported and the script goes on
FatalCall_Swallowed(at, op, val, next) ==
    /\ pc = at
    /\ \E ok \in BOOLEAN :
        /\ Call(op, ch_idx, NoStage, val, ok)
        /\ pc' = next
        /\ exc' = IF ok \/ exc /= NoExc THEN exc ELSE Raise(op)

\* a call whose exception is not caught where it is made: it reaches the
\* except clauses of main
FatalCall(at, op, val, next) ==
    /\ pc = at
    /\ \E ok \in BOOLEAN :
        /\ Call(op, ch_idx, NoStage, val, ok)
        /\ pc' = IF ok THEN next ELSE "except"
        /\ exc' = IF ok THEN exc ELSE Raise(op)

\* a call made inside its own try ... except: pass
CaughtCall(at, op, stage, val) ==
    /\ pc = at
    /\ \E ok \in BOOLEAN : Call(op, ch_idx, stage, val, ok)
    /\ exc' = exc

(* --------------------------- opening the device ----------------------- *)

\* dev = _bladerf.BladeRF(); the handle, once made, is truthy for `if dev:`
Open ==
    /\ pc = "open"
    /\ \E ok \in BOOLEAN :
        /\ Call("open", NoValue, NoStage, NoValue, ok)
        /\ dev' = IF ok THEN "dev" ELSE dev
        /\ pc' = IF ok THEN "set_frequency" ELSE "except"
        /\ exc' = IF ok THEN exc ELSE Raise("open")
    /\ ch_idx' = 0
    /\ UNCHANGED <<i_samples, q_samples, script, running, enabled, closed, gain_stages, stage_i, noise_ch0,
                   noise_ch1, dual_samples, draw, sigint, pending, result, raised>>

(* ------------------------ channel configuration ----------------------- *)

CfgFrame == <<i_samples, q_samples, script, running, dev, enabled, closed, ch_idx, gain_stages, stage_i,
              noise_ch0, noise_ch1, dual_samples, draw, sigint, pending, result,
              raised>>

\* where the `for stage in gain_stages` loop goes with i stages done
StageLoopPc(list, i) == IF i < Len(list) THEN "set_gain_stage" ELSE "set_bias_tee"

SetFrequency ==
    /\ FatalCall("set_frequency", "set_frequency", FreqKHz(script, ch_idx), "get_frequency")
    /\ UNCHANGED CfgFrame

GetFrequency ==
    /\ FatalCall("get_frequency", "get_frequency", NoValue, "set_sample_rate")
    /\ UNCHANGED CfgFrame

SetSampleRate ==
    /\ FatalCall("set_sample_rate", "set_sample_rate", SAMPLE_RATE_KHZ, "get_sample_rate")
    /\ UNCHANGED CfgFrame

GetSampleRate ==
    /\ FatalCall("get_sample_rate", "get_sample_rate", NoValue, "set_bandwidth")
    /\ UNCHANGED CfgFrame

SetBandwidth ==
    /\ FatalCall("set_bandwidth", "set_bandwidth", BANDWIDTH_KHZ, "get_bandwidth")
    /\ UNCHANGED CfgFrame

\* the single-channel script enumerates the stages before it sets the gain
GetBandwidth ==
    /\ FatalCall("get_bandwidth", "get_bandwidth", NoValue,
                 IF script = "l5" THEN "get_gain_stages" ELSE "set_gain")
    /\ UNCHANGED CfgFrame

SetGain ==
    /\ FatalCall("set_gain", "set_gain", TX_GAIN_DB, "get_gain")
    /\ UNCHANGED CfgFrame

GetGain ==
    /\ FatalCall("get_gain", "get_gain", NoValue,
                 IF script = "l5" THEN StageLoopPc(gain_stages[ch_idx], 0)
                 ELSE "get_gain_stages")
    /\ UNCHANGED CfgFrame

\* gain_stages = dev.get_gain_stages(channel)
GetGainStages ==
    /\ pc = "get_gain_stages"
    /\ \E ok \in BOOLEAN, list \in StageLists :
        /\ Call("get_gain_stages", ch_idx, NoStage, NoValue, ok)
        /\ gain_stages' = IF ok THEN [gain_stages EXCEPT ![ch_idx] = list] ELSE gain_stages
        /\ pc' = IF ~ok THEN "except"
                 ELSE IF script = "l5" THEN "set_gain" ELSE StageLoopPc(list, 0)
        /\ exc' = IF ok THEN exc ELSE Raise("get_gain_stages")
    /\ stage_i' = 0
    /\ UNCHANGED <<i_samples, q_samples, script, running, dev, enabled, closed, ch_idx, noise_ch0, noise_ch1,
                   dual_samples, draw, sigint, pending, result, raised>>

\* mutant: the stage loop has no try, so a failed stage set is fatal
SetGainStage_Uncaught ==
    /\ pc = "set_gain_stage"
    /\ LET stage == gain_stages[ch_idx][stage_i + 1] IN
       \E ok \in BOOLEAN :
        /\ Call("set_gain_stage", ch_idx, stage, StageValue(stage), ok)
        /\ pc' = IF ok THEN StageLoopPc(gain_stages[ch_idx], stage_i + 1) ELSE "except"
        /\ exc' = IF ok THEN exc ELSE Raise("set_gain_stage")
    /\ stage_i' = stage_i + 1
    /\ UNCHANGED <<i_samples, q_samples, script, running, dev, enabled, closed, ch_idx, gain_stages, noise_ch0,
                   noise_ch1, dual_samples, draw, sigint, pending, result, raised>>

\* one pass of the stage loop: try: set_gain_stage(...) except: pass
SetGainStage ==
    /\ LET stage == gain_stages[ch_idx][stage_i + 1] IN
       CaughtCall("set_gain_stage", "set_gain_stage", stage, StageValue(stage))
    /\ stage_i' = stage_i + 1
    /\ pc' = StageLoopPc(gain_stages[ch_idx], stage_i + 1)
    /\ UNCHANGED <<i_samples, q_samples, script, running, dev, enabled, closed, ch_idx, gain_stages, noise_ch0,
                   noise_ch1, dual_samples, draw, sigint, pending, result, raised>>

\* mutant: the bias-tee call has no try, so its failure is fatal
SetBiasTee_Uncaught ==
    /\ pc = "set_bias_tee"
    /\ \E ok \in BOOLEAN :
        /\ Call("set_bias_tee", ch_idx, NoStage, 1, ok)
        /\ exc' = IF ok THEN exc ELSE Raise("set_bias_tee")
        /\ IF ~ok
           THEN ch_idx' = ch_idx /\ pc' = "except"
           ELSE IF ch_idx + 1 < NumChannels(script)
           THEN ch_idx' = ch_idx + 1 /\ pc' = "set_frequency"
           ELSE ch_idx' = ch_idx /\ pc' = "sync_config"
    /\ UNCHANGED <<i_samples, q_samples, script, running, dev, enabled, closed, gain_stages, stage_i, noise_ch0,
                   noise_ch1, dual_samples, draw, sigint, pending, result, raised>>

\* try: set_bias_tee(channel, True) except: pass; then the next channel, or
\* the stream configuration
SetBiasTee ==
    /\ CaughtCall("set_bias_tee", "set_bias_tee", NoStage, 1)
    /\ IF ch_idx + 1 < NumChannels(script)
       THEN /\ ch_idx' = ch_idx + 1
            /\ pc' = "set_frequency"
       ELSE /\ ch_idx' = ch_idx
            /\ pc' = "sync_config"
    /\ UNCHANGED <<i_samples, q_samples, script, running, dev, enabled, closed, gain_stages, stage_i, noise_ch0,
                   noise_ch1, dual_samples, draw, sigint, pending, result, raised>>

(* ----------------------- stream set-up and enable ---------------------- *)

\* dev.sync_config(layout, fmt, num_buffers, buffer_size, num_transfers, timeout)
SyncConfig ==
    /\ pc = "sync_config"
    /\ \E ok \in BOOLEAN :
        /\ Call("sync_config", NoValue, NoStage, buffer_size, ok)
        /\ pc' = IF ok THEN "enable_module" ELSE "except"
        /\ exc' = IF ok THEN exc ELSE Raise("sync_config")
    /\ ch_idx' = 0
    /\ UNCHANGED <<i_samples, q_samples, script, running, dev, enabled, closed, gain_stages, stage_i, noise_ch0,
                   noise_ch1, dual_samples, draw, sigint, pending, result, raised>>

\* mutant: only channel 0 is enabled before the loop
EnableModule_FirstOnly ==
    /\ pc = "enable_module"
    /\ \E ok \in BOOLEAN :
        /\ Call("enable_module", ch_idx, NoStage, 1, ok)
        /\ enabled' = IF ok THEN enabled \cup {ch_idx} ELSE enabled
        /\ exc' = IF ok THEN exc ELSE Raise("enable_module")
        /\ pc' = IF ~ok THEN "except"
                 ELSE IF script = "l5" THEN "generate_initial" ELSE "while"
    /\ UNCHANGED <<i_samples, q_samples, script, running, dev, closed, ch_idx, gain_stages,
                   stage_i, noise_ch0, noise_ch1, dual_samples, draw, sigint, pending,
                   result, raised>>

\* dev.enable_module(ch, True), channel 0 first
EnableModule ==
    /\ pc = "enable_module"
    /\ \E ok \in BOOLEAN :
        /\ Call("enable_module", ch_idx, NoStage, 1, ok)
        /\ enabled' = IF ok THEN enabled \cup {ch_idx} ELSE enabled
        /\ exc' = IF ok THEN exc ELSE Raise("enable_module")
        /\ IF ~ok
           THEN pc' = "except" /\ ch_idx' = ch_idx
           ELSE IF ch_idx + 1 < NumChannels(script)
           THEN pc' = "enable_module" /\ ch_idx' = ch_idx + 1
           ELSE /\ pc' = IF script = "l5" THEN "generate_initial" ELSE "while"
                /\ ch_idx' = ch_idx
    /\ UNCHANGED <<i_samples, q_samples, script, running, dev, closed, gain_stages, stage_i, noise_ch0,
                   noise_ch1, dual_samples, draw, sigint, pending, result, raised>>

(* --------------------------- the transmit loop ------------------------ *)

\* single channel: noise_buffer = generate_white_noise(num_samples), before the loop
GenerateInitial ==
    /\ pc = "generate_initial"
    /\ noise_ch0' \in NoiseBuffers
    /\ pc' = "while"
    /\ UNCHANGED <<i_samples, q_samples, script, running, dev, enabled, closed, ch_idx, gain_stages, stage_i,
                   noise_ch1, dual_samples, draw, trace, last_ok, exc, sigint, pending,
                   result, raised>>

\* mutant: the loop does not look at the flag while transmits are left
While_IgnoresFlag ==
    /\ pc = "while"
    /\ \/ /\ TxCalls < MaxTx
          /\ pc' = IF script = "l5" THEN "sync_tx" ELSE "generate"
       \/ /\ ~running
          /\ TxCalls >= MaxTx
          /\ pc' = "finally"
    /\ UNCHANGED <<i_samples, q_samples, script, running, dev, enabled, closed, ch_idx, gain_stages, stage_i,
                   noise_ch0, noise_ch1, dual_samples, draw, trace, last_ok, exc, sigint,
                   pending, result, raised>>

\* mutant: the loop has no exit: with the flag cleared it polls for ever
While_NoExit ==
    /\ pc = "while"
    /\ running
    /\ TxCalls < MaxTx
    /\ pc' = IF script = "l5" THEN "sync_tx" ELSE "generate"
    /\ UNCHANGED <<i_samples, q_samples, script, running, dev, enabled, closed, ch_idx,
                   gain_stages, stage_i, noise_ch0, noise_ch1, dual_samples, draw, trace,
                   last_ok, exc, sigint, pending, result, raised>>

\* while running: the poll of the flag
While ==
    /\ pc = "while"
    /\ \/ /\ running
          /\ TxCalls < MaxTx
          /\ pc' = IF script = "l5" THEN "sync_tx" ELSE "generate"
       \/ /\ ~running
          /\ pc' = "finally"
    /\ UNCHANGED <<i_samples, q_samples, script, running, dev, enabled, closed, ch_idx, gain_stages, stage_i,
                   noise_ch0, noise_ch1, dual_samples, draw, trace, last_ok, exc, sigint,
                   pending, result, raised>>

\* dual channel: fresh noise for both channels, interleaved into dual_samples
Generate ==
    /\ pc = "generate"
    /\ \E a \in NoiseBuffers, b \in NoiseBuffers :
        /\ noise_ch0' = a
        /\ noise_ch1' = b
        /\ dual_samples' \in {Interleave(a, b, buffer_size * 2, fill) : fill \in Garbage}
    /\ pc' = "sync_tx"
    /\ UNCHANGED <<i_samples, q_samples, script, running, dev, enabled, closed, ch_idx, gain_stages, stage_i,
                   draw, trace, last_ok, exc, sigint, pending, result, raised>>

\* the buffer handed to sync_tx
TxBuffer == IF script = "l5" THEN noise_ch0 ELSE dual_samples

\* dev.sync_tx(buffer, timeout_ms)
SyncTx ==
    /\ pc = "sync_tx"
    /\ \E ok \in BOOLEAN :
        /\ Call("sync_tx", NoValue, NoStage, Len(TxBuffer), ok)
        /\ pc' = IF ~ok THEN "except"
                 ELSE IF script = "l5" THEN "refresh" ELSE "sleep"
        /\ exc' = IF ok THEN exc ELSE Raise("sync_tx")
    /\ UNCHANGED <<i_samples, q_samples, script, running, dev, enabled, closed, ch_idx, gain_stages, stage_i,
                   noise_ch0, noise_ch1, dual_samples, draw, sigint, pending, result,
                   raised>>

\* the draws of np.random.randint(0, 100) the model tells apart
RefreshDraws == {0, 1, REFRESH_MOD - 1}

\* mutant: the buffer is regenerated in every iteration
Refresh_EveryTime ==
    /\ pc = "refresh"
    /\ draw' \in RefreshDraws
    /\ noise_ch0' \in NoiseBuffers
    /\ pc' = "sleep"
    /\ UNCHANGED <<i_samples, q_samples, script, running, dev, enabled, closed, ch_idx,
                   gain_stages, stage_i, noise_ch1, dual_samples, trace, last_ok, exc,
                   sigint, pending, result, raised>>

\* single channel: if np.random.randint(0, 100) == 0: noise_buffer = generate...
Refresh ==
    /\ pc = "refresh"
    /\ \E d \in RefreshDraws :
        /\ draw' = d
        /\ IF d = 0
           THEN noise_ch0' \in NoiseBuffers
           ELSE noise_ch0' = noise_ch0
    /\ pc' = "sleep"
    /\ UNCHANGED <<i_samples, q_samples, script, running, dev, enabled, closed, ch_idx, gain_stages, stage_i,
                   noise_ch1, dual_samples, trace, last_ok, exc, sigint, pending, result,
                   raised>>

\* time.sleep(0.001)
Sleep ==
    /\ pc = "sleep"
    /\ pc' = "while"
    /\ UNCHANGED <<i_samples, q_samples, script, running, dev, enabled, closed, ch_idx, gain_stages, stage_i,
                   noise_ch0, noise_ch1, dual_samples, draw, trace, last_ok, exc, sigint,
                   pending, result, raised>>

(* ------------------------- except / finally / return ------------------ *)

\* except BladeRFError / except Exception: print, return 1 (the finally
\* block runs before the return takes effect)
ExceptClause ==
    /\ pc = "except"
    /\ pending' = 1
    /\ pc' = "finally"
    /\ UNCHANGED <<i_samples, q_samples, script, running, dev, enabled, closed, ch_idx, gain_stages, stage_i,
                   noise_ch0, noise_ch1, dual_samples, draw, trace, last_ok, exc, sigint,
                   result, raised>>

\* mutant: the finally block does not test the handle
Finally_NoDevCheck ==
    /\ pc = "finally"
    /\ pc' = "disable"
    /\ ch_idx' = 0
    /\ UNCHANGED <<i_samples, q_samples, script, running, dev, enabled, closed, gain_stages,
                   stage_i, noise_ch0, noise_ch1, dual_samples, draw, trace, last_ok, exc,
                   sigint, pending, result, raised>>

\* finally: if dev:
Finally ==
    /\ pc = "finally"
    /\ IF dev /= "None"
       THEN pc' = "disable" /\ ch_idx' = 0
       ELSE pc' = "return" /\ ch_idx' = ch_idx
    /\ UNCHANGED <<i_samples, q_samples, script, running, dev, enabled, closed, gain_stages, stage_i, noise_ch0,
                   noise_ch1, dual_samples, draw, trace, last_ok, exc, sigint, pending,
                   result, raised>>

\* mutant: the disable is made outside any try, so its exception leaves main
Disable_Uncaught ==
    /\ pc = "disable"
    /\ \E ok \in BOOLEAN :
        /\ Call("enable_module", ch_idx, NoStage, 0, ok)
        /\ enabled' = IF ok THEN enabled \ {ch_idx} ELSE enabled
        /\ raised' = ~ok
        /\ IF ~ok
           THEN pc' = "done" /\ ch_idx' = ch_idx
           ELSE IF ch_idx + 1 < NumChannels(script)
           THEN pc' = "disable" /\ ch_idx' = ch_idx + 1
           ELSE pc' = "close" /\ ch_idx' = ch_idx
    /\ UNCHANGED <<i_samples, q_samples, script, running, dev, closed, gain_stages, stage_i, noise_ch0,
                   noise_ch1, dual_samples, draw, exc, sigint, pending, result>>

\* dev.enable_module(CHANNEL_TX(ch), False) inside the one try of the finally
\* block; an exception goes to its `except: pass`, which ends the block
Disable ==
    /\ pc = "disable"
    /\ \E ok \in BOOLEAN :
        /\ Call("enable_module", ch_idx, NoStage, 0, ok)
        /\ enabled' = IF ok THEN enabled \ {ch_idx} ELSE enabled
        /\ IF ~ok
           THEN pc' = "return" /\ ch_idx' = ch_idx
           ELSE IF ch_idx + 1 < NumChannels(script)
           THEN pc' = "disable" /\ ch_idx' = ch_idx + 1
           ELSE pc' = "close" /\ ch_idx' = ch_idx
    /\ UNCHANGED <<i_samples, q_samples, script, running, dev, closed, gain_stages, stage_i, noise_ch0,
                   noise_ch1, dual_samples, draw, exc, sigint, pending, result, raised>>

\* mutant: the close is called a second time
Close_Retried ==
    /\ pc = "close"
    /\ \E ok \in BOOLEAN :
        /\ Call("close", NoValue, NoStage, NoValue, ok)
        /\ closed' = IF ok THEN TRUE ELSE closed
    /\ pc' = IF Count("close") = 0 THEN "close" ELSE "return"
    /\ UNCHANGED <<i_samples, q_samples, script, running, dev, enabled, ch_idx, gain_stages,
                   stage_i, noise_ch0, noise_ch1, dual_samples, draw, exc, sigint, pending,
                   result, raised>>

\* dev.close(), in the same try
Close ==
    /\ pc = "close"
    /\ \E ok \in BOOLEAN :
        /\ Call("close", NoValue, NoStage, NoValue, ok)
        /\ closed' = IF ok THEN TRUE ELSE closed
    /\ pc' = "return"
    /\ UNCHANGED <<i_samples, q_samples, script, running, dev, enabled, ch_idx, gain_stages, stage_i, noise_ch0,
                   noise_ch1, dual_samples, draw, exc, sigint, pending, result, raised>>

\* mutant: the finally block ends in a return 0 of its own
Return_FromFinally ==
    /\ pc = "return"
    /\ result' = 0
    /\ pc' = "done"
    /\ UNCHANGED <<i_samples, q_samples, script, running, dev, enabled, closed, ch_idx, gain_stages, stage_i,
                   noise_ch0, noise_ch1, dual_samples, draw, trace, last_ok, exc, sigint,
                   pending, raised>>

\* the end of the finally block: the pending `return 1` takes effect, or
\* main goes on to print "Shutdown complete" and return 0
Return ==
    /\ pc = "return"
    /\ result' = IF pending /= NoValue THEN pending ELSE 0
    /\ pc' = "done"
    /\ UNCHANGED <<i_samples, q_samples, script, running, dev, enabled, closed, ch_idx, gain_stages, stage_i,
                   noise_ch0, noise_ch1, dual_samples, draw, trace, last_ok, exc, sigint,
                   pending, raised>>

Next ==
    \/ Signal
    \/ Open
    \/ SetFrequency
    \/ GetFrequency
    \/ SetSampleRate
    \/ GetSampleRate
    \/ SetBandwidth
    \/ GetBandwidth
    \/ SetGain
    \/ GetGain
    \/ GetGainStages
    \/ SetGainStage
    \/ SetBiasTee
    \/ SyncConfig
    \/ EnableModule
    \/ GenerateInitial
    \/ While
    \/ Generate
    \/ SyncTx
    \/ Refresh
    \/ Sleep
    \/ ExceptClause
    \/ Finally
    \/ Disable
    \/ Close
    \/ Return

Spec == Init /\ [][Next]_vars

\* a step of main: the handler is the only writer of the flag
MainStep == Next /\ running' = running

\* every statement of main, and every call it makes, returns: main is not
\* held up for ever where it has a step to take
FairSpec == Spec /\ WF_vars(MainStep)

(* ------------- the interleaver on its own (pure function) -------------- *)

InitInterleave ==
    /\ script \in {"l1_l2", "l2_l5"}
    /\ pc = "interleave"
    /\ running = TRUE
    /\ dev = "dev"
    /\ enabled = {0, 1}
    /\ closed = FALSE
    /\ ch_idx = 1
    /\ gain_stages = [c \in {0, 1} |-> <<>>]
    /\ stage_i = 0
    /\ \E n \in 1..MaxSlots :
        /\ noise_ch0 \in generate_white_noise(n)
        /\ noise_ch1 \in generate_white_noise(n)
    /\ dual_samples = <<>>
    /\ i_samples = <<>>
    /\ q_samples = <<>>
    /\ draw = NoValue
    /\ trace = <<>>
    /\ last_ok = TRUE
    /\ exc = NoExc
    /\ sigint = NoSigint
    /\ pending = NoValue
    /\ result = NoValue
    /\ raised = FALSE

\* lines 143, 156-160 applied to the two channel buffers
InterleaveStep ==
    /\ pc = "interleave"
    /\ \E fill \in Garbage :
        dual_samples' = Interleave(noise_ch0, noise_ch1, (Len(noise_ch0) \div 2) * 2, fill)
    /\ pc' = "interleaved"
    /\ UNCHANGED <<i_samples, q_samples, script, running, dev, enabled, closed, ch_idx, gain_stages, stage_i,
                   noise_ch0, noise_ch1, draw, trace, last_ok, exc, sigint, pending,
                   result, raised>>

NextInterleave == InterleaveStep

SpecInterleave == InitInterleave /\ [][NextInterleave]_vars

(* ============================== claims ================================ *)

Opened == dev /= "None"

Returned == pc = "done"

Channels == 0..(NumChannels(script) - 1)

\* positions in the trace of the calls enable_module(CHANNEL_TX(c), False)
DisableIdx(c) ==
    {k \in 1..Len(trace) :
        trace[k].op = "enable_module" /\ trace[k].val = 0 /\ trace[k].ch = c}

CloseIdx == {k \in 1..Len(trace) : trace[k].op = "close"}

IsShutdownCall(e) == (e.op = "enable_module" /\ e.val = 0) \/ e.op = "close"

\* C1: whenever main has returned from a run in which the device was opened,
\* every shutdown step was attempted: the disable of each channel and the
\* close, however the steps before them ended.
C1_EveryShutdownStepAttempted ==
    (Returned /\ Opened) =>
        /\ \A c \in Channels : DisableIdx(c) /= {}
        /\ CloseIdx /= {}

\* C2: whenever main has returned from a run in which the device was opened,
\* close was called exactly once, after the channel disables.
C2_ClosedOnceBeforeReturn ==
    (Returned /\ Opened) =>
        /\ Cardinality(CloseIdx) = 1
        /\ \A k \in CloseIdx : \A c \in Channels : \E d \in DisableIdx(c) : d < k

\* number of transmit calls started after the handler cleared the flag
TxAfterSigint == TxCalls - sigint.tx

\* C3: once the handler has cleared the flag, at most one more sync_tx call is
\* started, and none at all when the flag was cleared before the poll of the
\* iteration.
C3_AtMostOneTxAfterCancel ==
    (sigint /= NoSigint) =>
        /\ TxAfterSigint <= 1
        /\ (sigint.pc \in {"while", "sleep", "refresh"}) => TxAfterSigint = 0

\* the flag was cleared between the poll and the transmit of an iteration, one
\* more transmit was started, and the shutdown has begun
C3_Witness ==
    /\ sigint.pc \in {"generate", "sync_tx"}
    /\ TxAfterSigint = 1
    /\ TxCalls = 2
    /\ pc = "disable"

\* C4: when the k-th transmit call fails, main returns with exactly k transmit
\* calls made, every channel disable and the close attempted, and a non-zero
\* outcome.
C4_TxFailureNoRetryFullShutdown ==
    (Returned /\ exc.op = "sync_tx") =>
        /\ trace[exc.at].op = "sync_tx"
        /\ \A k \in 1..Len(trace) : trace[k].op = "sync_tx" => k <= exc.at
        /\ \A c \in Channels : DisableIdx(c) /= {}
        /\ CloseIdx /= {}
        /\ result /= 0

\* the failures the claim lists as fatal
ListedFatal == {"open", "set_frequency", "set_sample_rate", "set_bandwidth", "set_gain",
                "sync_config", "sync_tx"}

\* the calls whose failure does reach the except clauses of main
Propagating == ListedFatal \cup {"get_frequency", "get_sample_rate", "get_bandwidth",
                                 "get_gain", "get_gain_stages", "enable_module"}

C6_ShutdownNeverRaises ==
    /\ ~raised
    /\ pc \in {"disable", "close", "return", "done"} =>
          /\ pending = (IF exc = NoExc THEN NoValue ELSE 1)
          /\ exc /= NoExc => ~IsShutdownCall(trace[exc.at])
    /\ Returned => result = (IF exc = NoExc THEN 0 ELSE 1)

\* a disable failed in a run that was cancelled cleanly, and main returned 0
C6_Witness ==
    /\ Returned
    /\ result = 0
    /\ ~last_ok
    /\ trace[Len(trace)].op = "enable_module"
    /\ trace[Len(trace)].ch = 1

\* C7: a dual-channel run whose flag was cleared after k complete iterations,
\* before the next poll, makes exactly k transmit calls, each with a buffer of
\* 4 x buffer_size elements, then disables channel 0, disables channel 1 and
\* closes the device, and returns 0.
C7_EndToEndDual ==
    (Returned /\ script /= "l5" /\ sigint.pc \in {"sleep", "while"}) =>
        LET k == sigint.tx
            n == Len(trace)
        IN  /\ TxCalls = k
            /\ \A j \in 1..n : trace[j].op = "sync_tx" => trace[j].val = 4 * buffer_size
            /\ n >= 3
            /\ trace[n - 2] = Ev("enable_module", 0, NoStage, 0)
            /\ trace[n - 1] = Ev("enable_module", 1, NoStage, 0)
            /\ trace[n] = Ev("close", NoValue, NoStage, NoValue)
            /\ \A j \in 1..(n - 3) : ~IsShutdownCall(trace[j])
            /\ result = 0

\* the set_gain_stage calls made for channel c, in the order made
StageCalls(c) == SelectSeq(trace, LAMBDA e : e.op = "set_gain_stage" /\ e.ch = c)

StageIdx(c) == {k \in 1..Len(trace) : trace[k].op = "set_gain_stage" /\ trace[k].ch = c}

BiasIdx(c) == {k \in 1..Len(trace) : trace[k].op = "set_bias_tee" /\ trace[k].ch = c}

\* C8: once the bias tee of a channel has been attempted, every enumerated
\* stage of the channel was attempted exactly once, in enumeration order, and
\* the bias tee once, after them; and whether a stage set or the bias-tee call
\* returned or raised, main goes on to the next stage, the bias tee, the next
\* channel or the stream configuration, never to the except clauses.
C8_StageAndBiasFailuresNonFatal ==
    /\ \A c \in Channels :
        BiasIdx(c) /= {} =>
            /\ [k \in 1..Len(StageCalls(c)) |-> StageCalls(c)[k].stage] = gain_stages[c]
            /\ Cardinality(BiasIdx(c)) = 1
            /\ \A b \in BiasIdx(c) : \A k \in StageIdx(c) : k < b
    /\ (trace /= <<>> /\ trace[Len(trace)].op = "set_gain_stage") =>
            /\ pc = StageLoopPc(gain_stages[ch_idx], stage_i)
            /\ exc = NoExc
    /\ (trace /= <<>> /\ trace[Len(trace)].op = "set_bias_tee") =>
            /\ pc = (IF trace[Len(trace)].ch + 1 < NumChannels(script)
                     THEN "set_frequency" ELSE "sync_config")
            /\ exc = NoExc

\* the bias-tee call of channel 1 raised after both its stages were attempted,
\* and main stands at the stream configuration
C8_Witness ==
    /\ pc = "sync_config"
    /\ ~last_ok
    /\ script = "l1_l2"
    /\ Len(StageCalls(0)) = 1
    /\ Len(StageCalls(1)) = 2

\* the calls made while a channel is configured
ConfigOps == {"set_frequency", "get_frequency", "set_sample_rate", "get_sample_rate",
              "set_bandwidth", "get_bandwidth", "set_gain", "get_gain",
              "get_gain_stages", "set_gain_stage", "set_bias_tee"}

\* C9 as stated: a call of channel configuration that aborts startup is one of
\* set_frequency, set_sample_rate, set_bandwidth, set_gain.
C9_OnlySettersAbort ==
    exc.op \in ConfigOps =>
        exc.op \in {"set_frequency", "set_sample_rate", "set_bandwidth", "set_gain"}

\* C9 amended: a call of channel configuration that aborts startup is one of
\* the four setters, their four read-backs or the stage enumeration, and it is
\* the last call before the shutdown calls; a stage set or the bias-tee call
\* never aborts it.
C9_SettersReadbacksEnumerationAbort ==
    exc.op \in ConfigOps =>
        /\ exc.op \in {"set_frequency", "set_sample_rate", "set_bandwidth", "set_gain",
                       "get_frequency", "get_sample_rate", "get_bandwidth", "get_gain",
                       "get_gain_stages"}
        /\ trace[exc.at].op = exc.op
        /\ \A k \in (exc.at + 1)..Len(trace) : IsShutdownCall(trace[k])

\* the read-back of the gain of channel 1 raised and main returned 1
C9_Witness ==
    /\ Returned
    /\ exc.op = "get_gain"
    /\ trace[exc.at].ch = 1
    /\ result = 1

\* C10: the transfer buffer built from two channel buffers of 2n elements has
\* 4n elements and holds, for every slot s, ch0.I[s], ch0.Q[s], ch1.I[s],
\* ch1.Q[s] at offsets 4s .. 4s+3, where I[s] and Q[s] are elements 2s and 2s+1
\* of the channel buffer (offsets counted from 0).
C10_Interleaving ==
    pc = "interleaved" =>
        LET n == Len(noise_ch0) \div 2 IN
        /\ Len(noise_ch0) = 2 * n /\ Len(noise_ch1) = 2 * n
        /\ Len(dual_samples) = 4 * n
        /\ \A s \in 0..(n - 1) :
            /\ dual_samples[4 * s + 1] = noise_ch0[2 * s + 1]
            /\ dual_samples[4 * s + 2] = noise_ch0[2 * s + 2]
            /\ dual_samples[4 * s + 3] = noise_ch1[2 * s + 1]
            /\ dual_samples[4 * s + 4] = noise_ch1[2 * s + 2]

\* two slots per channel, with I and Q, the two slots and the two channels
\* all told apart by their values
C10_Witness ==
    /\ pc = "interleaved"
    /\ Len(noise_ch0) = 4
    /\ noise_ch0 = <<Scale(RAW_MAX), Scale(RAW_MIN), Scale(RAW_MIN), Scale(RAW_MIN)>>
    /\ noise_ch1 = <<Scale(RAW_MIN), Scale(RAW_MAX), Scale(RAW_MAX), Scale(RAW_MAX)>>
    /\ dual_samples[5] = Scale(RAW_MIN)
    /\ dual_samples[7] = Scale(RAW_MAX)

(* ------------- the stage loop on its own (gain-stage policy) ------------ *)

\* main stands at the `for stage in gain_stages` loop of channel 0 with any
\* list of up to MaxStages names
InitGain ==
    /\ script \in Scripts
    /\ running = TRUE
    /\ dev = "dev"
    /\ enabled = {}
    /\ closed = FALSE
    /\ ch_idx = 0
    /\ \E n \in 0..MaxStages : \E list \in [1..n -> StageNames] :
        /\ gain_stages = [c \in {0, 1} |-> IF c = 0 THEN list ELSE <<>>]
        /\ pc = StageLoopPc(list, 0)
    /\ stage_i = 0
    /\ noise_ch0 = <<>>
    /\ noise_ch1 = <<>>
    /\ dual_samples = <<>>
    /\ i_samples = <<>>
    /\ q_samples = <<>>
    /\ draw = NoValue
    /\ trace = <<>>
    /\ last_ok = TRUE
    /\ exc = NoExc
    /\ sigint = NoSigint
    /\ pending = NoValue
    /\ result = NoValue
    /\ raised = FALSE

NextGain == SetGainStage

SpecGain == InitGain /\ [][NextGain]_vars

\* the names of StageNames that hold 'dsa' in some mix of cases
Attenuators == {DSA1, DSA2, DSA_UP, TX_DSA}

\* C11: every stage set so far was set to 0 if its name holds 'dsa' in any mix
\* of cases and to 60 otherwise, whatever the other names of the list are and
\* whether earlier stage sets returned or raised; at the end of the loop each
\* name of the list was set exactly once, in order; for txvga1, dsa1, dsa2 the
\* values are 60, 0, 0.
C11_GainStagePolicy ==
    LET list == gain_stages[0] IN
    /\ Len(trace) = stage_i
    /\ \A k \in 1..Len(trace) :
        /\ trace[k].op = "set_gain_stage"
        /\ trace[k].stage = list[k]
        /\ trace[k].val = (IF list[k] \in Attenuators THEN 0 ELSE 60)
    /\ pc = "set_bias_tee" =>
        /\ Len(trace) = Len(list)
        /\ list = <<TXVGA1, DSA1, DSA2>> =>
              [k \in 1..3 |-> trace[k].val] = <<60, 0, 0>>

\* the loop has run over txvga1, dsa1, dsa2
C11_Witness ==
    /\ pc = "set_bias_tee"
    /\ gain_stages[0] = <<TXVGA1, DSA1, DSA2>>
    /\ Len(trace) = 3
    /\ ~last_ok

(* ------------------ generate_white_noise on its own -------------------- *)

\* every value np.random.randint(-2047, 2048) can deliver
RawRange == RAW_MIN..RAW_MAX

\* an array of n raw values: v at position j, the extreme e elsewhere
OneVaried(n, j, v, e) == [k \in 1..n |-> IF k = j THEN v ELSE e]

\* the two arrays as drawn: one element of one of them takes every value of
\* the raw range, the others are extremes
InitNoise ==
    /\ script = "l5"
    /\ pc = "scale"
    /\ \E n \in 1..MaxSlots : \E j \in 1..n, v \in RawRange, e \in RawSamples,
                                 f \in [1..n -> RawSamples] :
        /\ \/ i_samples = OneVaried(n, j, v, e) /\ q_samples = f
           \/ q_samples = OneVaried(n, j, v, e) /\ i_samples = f
    /\ running = TRUE
    /\ dev = "dev"
    /\ enabled = {0}
    /\ closed = FALSE
    /\ ch_idx = 0
    /\ gain_stages = [c \in {0, 1} |-> <<>>]
    /\ stage_i = 0
    /\ noise_ch0 = <<>>
    /\ noise_ch1 = <<>>
    /\ dual_samples = <<>>
    /\ draw = NoValue
    /\ trace = <<>>
    /\ last_ok = TRUE
    /\ exc = NoExc
    /\ sigint = NoSigint
    /\ pending = NoValue
    /\ result = NoValue
    /\ raised = FALSE

\* i_samples = (i_samples * 0.95).astype(np.int16), and the same for q_samples
ScaleSamples ==
    /\ pc = "scale"
    /\ i_samples' = [k \in 1..Len(i_samples) |-> Scale(i_samples[k])]
    /\ q_samples' = [k \in 1..Len(q_samples) |-> Scale(q_samples[k])]
    /\ pc' = "pack"
    /\ UNCHANGED <<script, running, dev, enabled, closed, ch_idx, gain_stages, stage_i,
                   noise_ch0, noise_ch1, dual_samples, draw, trace, last_ok, exc, sigint,
                   pending, result, raised>>

\* samples = np.empty(2 * num_samples); samples[0::2] = i_samples;
\* samples[1::2] = q_samples; return samples
PackSamples ==
    /\ pc = "pack"
    /\ noise_ch0' \in {IQBuffer(i_samples, q_samples, fill) : fill \in Garbage}
    /\ pc' = "generated"
    /\ UNCHANGED <<i_samples, q_samples, script, running, dev, enabled, closed, ch_idx,
                   gain_stages, stage_i, noise_ch1, dual_samples, draw, trace, last_ok,
                   exc, sigint, pending, result, raised>>

NextNoise ==
    \/ ScaleSamples
    \/ PackSamples

SpecNoise == InitNoise /\ [][NextNoise]_vars

InBound(v) == -1944 <= v /\ v <= 1944

\* C12: every raw value of [-2047, 2047] is scaled to a value of
\* [-1944, 1944], and the buffer returned for n samples has exactly 2n
\* elements, all of them in [-1944, 1944].
C12_SampleBound ==
    /\ pc = "scale" =>
        \A k \in 1..Len(i_samples) : InBound(Scale(i_samples[k])) /\ InBound(Scale(q_samples[k]))
    /\ pc \in {"pack", "generated"} =>
        \A k \in 1..Len(i_samples) : InBound(i_samples[k]) /\ InBound(q_samples[k])
    /\ pc = "generated" =>
        /\ Len(noise_ch0) = 2 * Len(i_samples)
        /\ \A k \in 1..Len(noise_ch0) : InBound(noise_ch0[k])

\* a buffer of two samples that attains both ends of the bound
C12_Witness ==
    /\ pc = "generated"
    /\ noise_ch0 = <<1944, -1944, -1944, 1944>>

(* ------------------------------- C13 ----------------------------------- *)

\* positions in the trace of the calls of op on channel c
OpIdx(op, c) == {k \in 1..Len(trace) : trace[k].op = op /\ trace[k].ch = c}

\* positions in the trace of the calls enable_module(CHANNEL_TX(c), True)
EnableIdx(c) ==
    {k \in 1..Len(trace) : trace[k].op = "enable_module" /\ trace[k].ch = c /\ trace[k].val = 1}

SetterOps == {"set_frequency", "set_sample_rate", "set_bandwidth", "set_gain"}

\* before position k of the trace: the open, every setter of every channel,
\* the stream configuration and every enable, and no disable and no close
StreamingBefore(k) ==
    /\ trace[1].op = "open"
    /\ \A c \in Channels :
        /\ \A op \in SetterOps : \E j \in OpIdx(op, c) : j < k
        /\ \E j \in EnableIdx(c) : j < k
    /\ \E j \in 1..(k - 1) : trace[j].op = "sync_config"
    /\ \A j \in 1..(k - 1) : ~IsShutdownCall(trace[j])

\* C13: a transmit is made only while streaming: the device is open, every
\* channel is configured and enabled, the stream is configured, and no
\* disable or close has been called.
C13_TransmitOnlyStreaming ==
    /\ pc = "sync_tx" =>
        /\ Opened
        /\ ~closed
        /\ enabled = Channels
        /\ exc = NoExc
        /\ StreamingBefore(Len(trace) + 1)
    /\ \A k \in 1..Len(trace) : trace[k].op = "sync_tx" => StreamingBefore(k)

\* a dual-channel run that transmitted, shut down and returned
C13_Witness ==
    /\ Returned
    /\ script = "l1_l2"
    /\ TxCalls >= 1
    /\ closed
    /\ enabled = {}

(* ------------------------------- C14 ----------------------------------- *)

\* the failures the claim lists: a setter of either channel, or the stream
\* configuration
FatalConfigOps == SetterOps \cup {"sync_config"}

\* C14: when a set of the frequency, sample rate, bandwidth or gain of
\* either channel, or the stream configuration, fails, no later
\* configuration step, no enable and no transmit is made: only calls of the
\* shutdown block follow, and main returns non-zero.
C14_FatalConfigFailure ==
    exc.op \in FatalConfigOps =>
        /\ trace[exc.at].op = exc.op
        /\ \A k \in (exc.at + 1)..Len(trace) : IsShutdownCall(trace[k])
        /\ \A c \in Channels : EnableIdx(c) = {}
        /\ enabled = {}
        /\ TxCalls = 0
        /\ pc \notin {"set_frequency", "get_frequency", "set_sample_rate", "get_sample_rate",
                      "set_bandwidth", "get_bandwidth", "set_gain", "get_gain",
                      "get_gain_stages", "set_gain_stage", "set_bias_tee", "sync_config",
                      "enable_module", "generate_initial", "generate", "sync_tx", "refresh",
                      "sleep", "while"}
        /\ Returned => result /= 0 /\ result /= NoValue

\* the gain set of the second channel failed; the run shut down and returned
C14_Witness ==
    /\ Returned
    /\ exc.op = "set_gain"
    /\ trace[exc.at].ch = 1
    /\ closed
    /\ result = 1

(* ------------------------------- C15 ----------------------------------- *)

\* one step of the single-channel script, as far as its buffer goes
BufferStep ==
    /\ noise_ch0' /= noise_ch0 =>
        \/ pc = "generate_initial"
        \/ pc = "refresh" /\ draw' = 0
    /\ pc = "generate_initial" => TxCalls = 0 /\ noise_ch0 = <<>>
    /\ pc = "generate_initial" /\ pc' /= pc => noise_ch0' \in NoiseBuffers
    /\ pc = "refresh" /\ draw' = 0 => noise_ch0' \in NoiseBuffers
    /\ pc = "refresh" /\ draw' /= 0 => noise_ch0' = noise_ch0
    /\ pc \in {"while", "sync_tx", "sleep"} => noise_ch0' = noise_ch0
    /\ pc = "while" => noise_ch0 \in NoiseBuffers
    /\ pc = "sync_tx" => noise_ch0 \in NoiseBuffers
    /\ pc = "sync_tx" /\ trace' /= trace => trace'[Len(trace')].val = Len(noise_ch0)

\* C15: the single-channel script generates its buffer once, before the first
\* iteration; an iteration transmits the buffer of the iteration before
\* unless the refresh draw of that iteration hit (the draw is 0); the buffer
\* does not change between the poll and the transmit of an iteration.
C15_BufferReuse == [][script = "l5" => BufferStep]_vars

\* the third transmit is about to send the buffer kept over a missed draw
C15_Witness ==
    /\ script = "l5"
    /\ pc = "sync_tx"
    /\ TxCalls = 2
    /\ draw = REFRESH_MOD - 1
    /\ noise_ch0 \in NoiseBuffers

(* ------------------------------- C16 ----------------------------------- *)

\* C16: when the open fails, no call is made on any collaborator afterwards:
\* the shutdown block performs no device operation, and main returns
\* non-zero.
C16_OpenFailure ==
    exc.op = "open" =>
        /\ Len(trace) = 1
        /\ trace[1].op = "open"
        /\ exc.at = 1
        /\ ~Opened
        /\ enabled = {}
        /\ ~closed
        /\ pc \in {"except", "finally", "return", "done"}
        /\ Returned => result = 1

\* the open failed and main has returned
C16_Witness ==
    /\ Returned
    /\ exc.op = "open"
    /\ ~last_ok
    /\ result = 1

(* ------------------------------- C17 ----------------------------------- *)

\* C17: the running flag, once cleared, stays cleared; and, every call
\* returning, once the flag is cleared main eventually returns.
C17_TerminationAfterCancel ==
    /\ [][~running => ~running']_vars
    /\ ~running ~> Returned

\* the flag was cleared inside the loop after a transmit, and main returned
C17_Witness ==
    /\ ~running
    /\ Returned
    /\ sigint.pc \in LoopPcs
    /\ sigint.tx >= 1
    /\ result = 0

(* ------------------------------- C18 ----------------------------------- *)

\* the handler first ran before the first poll of the flag
CancelledBeforeFirstPoll ==
    \/ sigint.pc = "startup"
    \/ sigint.pc = "while" /\ sigint.tx = 0

\* every configuration setter of every channel, the stream configuration and
\* every enable are in the call log
StartupComplete ==
    /\ \A c \in Channels :
        /\ \A op \in SetterOps : OpIdx(op, c) /= {}
        /\ BiasIdx(c) /= {}
        /\ EnableIdx(c) /= {}
    /\ Count("sync_config") = 1

\* the part of C18 up to the shutdown: the start-up is carried through and
\* the loop body is never entered
C18_StartupRunsLoopSkipped ==
    (CancelledBeforeFirstPoll /\ exc = NoExc) =>
        /\ TxCalls = 0
        /\ pc \notin {"generate", "sync_tx", "refresh", "sleep", "except"}
        /\ pc \in ShutdownPcs \cup {"done"} => StartupComplete
        /\ Returned => result = 0

\* C18: a cancellation that arrives before the first poll does not abort
\* the configuration: the remaining configuration, the stream configuration
\* and the enables are still performed, the loop body is never entered, no
\* transmit is made, every channel is disabled, the device is closed, and
\* main returns 0.
C18_CancelBeforeFirstPoll ==
    /\ C18_StartupRunsLoopSkipped
    /\ (CancelledBeforeFirstPoll /\ exc = NoExc /\ Returned) =>
        /\ \A c \in Channels : DisableIdx(c) /= {}
        /\ CloseIdx /= {}

(* ------------------------------- C19 ----------------------------------- *)

\* C19: the device is not used after its close: every disable precedes the
\* close, the close is called at most once, and no call follows it.
C19_NoUseAfterClose ==
    /\ Cardinality(CloseIdx) <= 1
    /\ \A k \in CloseIdx :
        /\ k = Len(trace)
        /\ \A c \in Channels :
            /\ DisableIdx(c) /= {}
            /\ \A d \in DisableIdx(c) : d < k
    /\ closed => CloseIdx /= {} /\ pc \in {"return", "done"}
    /\ CloseIdx /= {} => pc \in {"return", "done"}

\* both channels were disabled, the close came last, and main returned
C19_Witness ==
    /\ Returned
    /\ NumChannels(script) = 2
    /\ closed
    /\ CloseIdx = {Len(trace)}
    /\ \A c \in Channels : Cardinality(DisableIdx(c)) = 1

====
